---- MODULE Spec2Model ----
(***************************************************************************)
(* Qualit-EnR directory scraper: BaseScraper (utils/basescraper.py) and    *)
(* QualitEnrScraper (qualit_enr_scraper.py).                               *)
(*                                                                         *)
(* Five specifications share the definitions below:                       *)
(*   Spec     the __main__ driver running QualitEnrScraper over the        *)
(*            (region, category) pairs against a nondeterministic site;    *)
(*   SpecReq  BaseScraper.make_request under the retry decorator, for any  *)
(*            constructor arguments request_delay and max_retries;         *)
(*   SpecCsv  BaseScraper.save_to_csv applied to arbitrary files/batches;  *)
(*   SpecLoops  Spec side by side with BaseScraper.paginate, the other     *)
(*            pagination loop of the repository;                           *)
(*   SpecAddr _get_company_details parsing any address text.               *)
(*                                                                         *)
(* A text that is split or joined is the sequence of its pieces (words,    *)
(* spaces, bars).                                                          *)
(*                                                                         *)
(* Python values: a list is a sequence, None/[] of an Optional list is     *)
(* <<>>, a dict is the sequence of its <<key, value>> pairs in insertion   *)
(* order, a CSV file is the sequence of its rows and a row the sequence of *)
(* its cell strings.                                                       *)
(***************************************************************************)
EXTENDS Integers, Sequences, FiniteSets, TLC

VARIABLES
    mode,           \* which program runs: "run", "req", "csv", "pag" or "addr"
    site,           \* how the site behaves during a run (see CountsOf); under
                    \* paginate, whose process_page runs
    request_delay,  \* BaseScraper.request_delay: <<>> (None) or <<min, max>>
    max_retries,    \* BaseScraper.max_retries
    request_count,  \* BaseScraper.request_count
    call,           \* the make_request call in progress (retry decorator frame)
    pc,             \* position of the driver / scrape_region_category
    pair,           \* index of the (region, category) pair the driver is at
    page,           \* scrape_region_category: page
    total_pages,    \* scrape_region_category: total_pages; paginate: max_pages
    total_count,    \* scrape_region_category: total_count (-1: never assigned)
    items,          \* hrefs of the current page still to visit
    results,        \* scrape_region_category: results
    all_results,    \* scrape_region_category: all_results; paginate: results
    all_data,       \* __main__: all_data
    file,           \* the output file on disk
    hist            \* history (ghost) variables read by the properties; in
                    \* SpecAddr also the listing page to parse

vars == <<mode, site, request_delay, max_retries, request_count, call, pc, pair, page,
          total_pages, total_count, items, results, all_results, all_data, file,
          hist>>

-----------------------------------------------------------------------------
(* Bounds *)

MaxM == 4           \* max_retries ranges over 1..MaxM in SpecReq
MaxCalls == 2       \* save_to_csv calls per behaviour of SpecCsv
MaxBatch == 2       \* records per save_to_csv batch in SpecCsv
MaxRows == 3        \* records submitted to save_to_csv per behaviour of SpecCsv
MaxCount == 45      \* largest result count the site reports on page 1
MaxItems == 2       \* listing links on one search page
MaxListings == 2    \* listing pages the site serves during one run
MaxReqCalls == 2    \* make_request calls per behaviour of SpecReq
MaxFailures == 3    \* failed HTTP attempts during one run of the scraper
MaxPages == 3       \* start_page and max_pages of a paginate call
MaxSegs == 3        \* segments of an address text in SpecAddr
MaxPieces == 5      \* pieces (words and spaces) of its last segment

-----------------------------------------------------------------------------
(* Python helpers *)

PyNone == "<None>"

Range(s) == {s[i] : i \in 1..Len(s)}

\* list(d.keys())
Keys(d) == [i \in 1..Len(d) |-> d[i][1]]

\* d.get(k, default)
Get(d, k, default) ==
    IF \E i \in 1..Len(d) : d[i][1] = k
    THEN d[CHOOSE i \in 1..Len(d) : d[i][1] = k][2]
    ELSE default

\* the csv module writes None as the empty string and a str as itself
CsvCell(v) == IF v = PyNone THEN "" ELSE v

\* sep.join(tokens)
RECURSIVE Join(_, _)
Join(tokens, sep) ==
    IF Len(tokens) = 0 THEN ""
    ELSE IF Len(tokens) = 1 THEN tokens[1]
    ELSE tokens[1] \o sep \o Join(Tail(tokens), sep)

\* A text is the sequence of its pieces: a piece is a space, a bar, or a
\* string with neither.  Str is the string a text stands for.
Space == " "
Bar == "|"
Str(text) == Join(text, "")

StartsWith(text, sep) ==
    Len(text) >= Len(sep) /\ SubSeq(text, 1, Len(sep)) = sep

\* text.split(sep): the parts of text between the occurrences of sep, found
\* from the left; cur is the part being read
RECURSIVE SplitFrom(_, _, _)
SplitFrom(text, sep, cur) ==
    IF text = <<>> THEN <<cur>>
    ELSE IF StartsWith(text, sep)
    THEN <<cur>> \o SplitFrom(SubSeq(text, Len(sep) + 1, Len(text)), sep, <<>>)
    ELSE SplitFrom(Tail(text), sep, Append(cur, Head(text)))

PySplit(text, sep) == SplitFrom(text, sep, <<>>)

\* sep.join(parts) on texts
RECURSIVE JoinTexts(_, _)
JoinTexts(parts, sep) ==
    IF Len(parts) = 0 THEN <<>>
    ELSE IF Len(parts) = 1 THEN parts[1]
    ELSE parts[1] \o sep \o JoinTexts(Tail(parts), sep)

-----------------------------------------------------------------------------
(* BaseScraper.save_to_csv *)

\* A file: exists (os.path.isfile), bad (its first line does not decode, so
\* reading the header raises), rows (what csv.reader yields for it).
NoFile == [exists |-> FALSE, bad |-> FALSE, rows |-> <<>>]
MkFile(rows) == [exists |-> TRUE, bad |-> FALSE, rows |-> rows]
BadFile(rows) == [exists |-> TRUE, bad |-> TRUE, rows |-> rows]

\* os.path.getsize(filename) > 0
NonEmptyFile(f) == f.bad \/ Len(f.rows) > 0

\* An element of data: kind "dict" (items: the <<key, value>> pairs) or
\* kind "list" (cells: the cells).
DictRec(d) == [kind |-> "dict", items |-> d, cells |-> <<>>]
ListRec(r) == [kind |-> "list", items |-> <<>>, cells |-> r]

\* csv.DictWriter._dict_to_list: extrasaction='raise', restval=''
DictHasExtras(rec, fieldnames) ==
    \E i \in 1..Len(rec.items) : rec.items[i][1] \notin Range(fieldnames)

DictToList(rec, fieldnames) ==
    [i \in 1..Len(fieldnames) |-> CsvCell(Get(rec.items, fieldnames[i], ""))]

\* csv.DictWriter.writerows: rows are written one by one until one raises
RECURSIVE DictWriteRows(_, _)
DictWriteRows(data, fieldnames) ==
    IF Len(data) = 0 THEN [rows |-> <<>>, raised |-> FALSE]
    ELSE IF Head(data).kind # "dict" \/ DictHasExtras(Head(data), fieldnames)
    THEN [rows |-> <<>>, raised |-> TRUE]
    ELSE LET rest == DictWriteRows(Tail(data), fieldnames)
         IN  [rows |-> <<DictToList(Head(data), fieldnames)>> \o rest.rows,
              raised |-> rest.raised]

\* csv.writer.writerow iterates its argument: a list gives its cells, a dict
\* gives its keys
WriterRow(rec) ==
    IF rec.kind = "dict"
    THEN [i \in 1..Len(rec.items) |-> CsvCell(rec.items[i][1])]
    ELSE [i \in 1..Len(rec.cells) |-> CsvCell(rec.cells[i])]

\* csv.writer.writerows
WriterRows(data) == [i \in 1..Len(data) |-> WriterRow(data[i])]

\* (mutant) the existing header is never recognised
ReconcileAlwaysHeader(f, data, fieldnames) ==
    [header_needed |-> TRUE, write_mode |-> "a", data |-> data]

\* The header reconciliation of an append to an existing non-empty file
\* (lines 287-316): the header flag, the write mode and the data to write.
Reconcile(f, data, fieldnames) ==
    IF f.bad
    THEN [header_needed |-> TRUE, write_mode |-> "w", data |-> data]
    ELSE LET existing_header == IF Len(f.rows) > 0 THEN f.rows[1] ELSE <<>>
             matches == existing_header # <<>> /\ existing_header = fieldnames
             \* f.seek(0); list(reader): every row, the first one included
             reread == [i \in 1..Len(f.rows) |-> ListRec(f.rows[i])]
             existing_data ==
                 IF existing_header # <<>> /\ existing_header # fieldnames
                 THEN <<ListRec(existing_header)>> \o reread
                 ELSE reread
         IN  IF matches
             THEN [header_needed |-> FALSE, write_mode |-> "a", data |-> data]
             ELSE [header_needed |-> TRUE, write_mode |-> "w",
                   data |-> existing_data \o data]

\* open(filename, write_mode) and the writes of lines 322-334
WriteCsv(f, plan, fieldnames) ==
    LET base == IF plan.write_mode = "w" \/ ~f.exists THEN <<>> ELSE f.rows
        bad == plan.write_mode # "w" /\ f.bad
        header == plan.write_mode = "w" \/ plan.header_needed
        first == plan.data[1]
    IN  IF first.kind = "dict"
        THEN LET w == DictWriteRows(plan.data, fieldnames)
             IN  [file |-> [exists |-> TRUE, bad |-> bad,
                            rows |-> base \o (IF header THEN <<fieldnames>> ELSE <<>>)
                                          \o w.rows],
                  raised |-> w.raised]
        ELSE [file |-> [exists |-> TRUE, bad |-> bad,
                        rows |-> base
                                 \o (IF header /\ fieldnames # <<>>
                                     THEN <<fieldnames>> ELSE <<>>)
                                 \o WriterRows(plan.data)],
              raised |-> FALSE]

\* save_to_csv(data, filename, fieldnames, mode): the file afterwards and
\* whether the call raised.  data is a list of records.
save_to_csv(f, data, fieldnames0, wmode) ==
    IF Len(data) = 0
    THEN [file |-> f, raised |-> FALSE]
    ELSE LET fieldnames ==
                 IF data[1].kind = "dict" /\ fieldnames0 = <<>>
                 THEN Keys(data[1].items)
                 ELSE fieldnames0
         IN  IF data[1].kind = "list" /\ fieldnames = <<>>
             THEN [file |-> f, raised |-> TRUE]
             ELSE LET plan ==
                          IF wmode = "a" /\ f.exists /\ NonEmptyFile(f)
                          THEN Reconcile(f, data, fieldnames)
                          ELSE [header_needed |-> TRUE, write_mode |-> wmode,
                                data |-> data]
                  IN  WriteCsv(f, plan, fieldnames)

-----------------------------------------------------------------------------
(* BaseScraper.make_request under @retry(tries=3, delay=1, backoff=2) *)

RetryTries == 3
RetryDelay == 1
RetryBackoff == 2

NoSleep == -1

\* What one HTTP attempt can end in: a response with a success status, a
\* network error, a response with a non-success status (raise_for_status),
\* a timeout, or an exception that is not a RequestException.
Outcomes == {"ok", "connection_error", "http_error", "timeout", "unexpected"}

\* The frame of one decorated call.  tries and delay are the decorator's
\* _tries and _delay; the other fields record what the call did: attempts
\* (HTTP requests issued), count0 (request_count when the call began), slept
\* (per attempt, the rate-limiting sleep before it, NoSleep if there was
\* none), waits (the decorator's sleeps), kinds and fails (the failures seen
\* and their number), attempt (the attempt number the last pass logged).
IdleCall ==
    [state |-> "idle", tries |-> 0, delay |-> 0, attempts |-> 0, count0 |-> 0,
     slept |-> <<>>, waits |-> <<>>, kinds |-> {}, fails |-> 0, attempt |-> 0]

\* retry_decorator: _tries, _delay = tries, delay
BeginCall(count) ==
    [state |-> "running", tries |-> RetryTries, delay |-> RetryDelay,
     attempts |-> 0, count0 |-> count, slept |-> <<>>, waits |-> <<>>,
     kinds |-> {}, fails |-> 0, attempt |-> 0]

\* _random_delay: the durations time.sleep may be called with
DelayChoices(delay) ==
    IF delay # <<>> /\ delay[2] > 0 THEN delay[1]..delay[2] ELSE {NoSleep}

\* (mutant) the decorator gives up one failure early
RetryAfterFailureEarly(c) ==
    IF c.tries - 1 <= 1
    THEN [c EXCEPT !.tries = c.tries - 1, !.state = "raised"]
    ELSE [c EXCEPT !.tries = c.tries - 1,
                   !.waits = Append(c.waits, c.delay),
                   !.delay = c.delay * RetryBackoff]

\* (mutant) the decorator sleeps the same delay after every failure
RetryAfterFailureNoDoubling(c) ==
    IF c.tries - 1 = 0
    THEN [c EXCEPT !.tries = 0, !.state = "raised"]
    ELSE [c EXCEPT !.tries = c.tries - 1,
                   !.waits = Append(c.waits, c.delay)]

\* __retry_internal, except branch: _tries -= 1; if not _tries: raise;
\* time.sleep(_delay); _delay *= backoff
RetryAfterFailure(c) ==
    IF c.tries - 1 = 0
    THEN [c EXCEPT !.tries = 0, !.state = "raised"]
    ELSE [c EXCEPT !.tries = c.tries - 1,
                   !.waits = Append(c.waits, c.delay),
                   !.delay = c.delay * RetryBackoff]

\* The body of make_request, once: attempt = kwargs.pop('_attempt', 1) finds
\* no '_attempt', because the kwargs of each pass are a fresh dict and the
\* assignment of line 217 is lost with the pass that made it.
MakeRequestPass(c, outcome, d) ==
    LET c1 == [c EXCEPT !.slept = Append(c.slept, d),
                        !.attempts = c.attempts + 1,
                        !.attempt = 1]
    IN  IF outcome = "ok"
        THEN [c1 EXCEPT !.state = "response"]
        ELSE RetryAfterFailure([c1 EXCEPT !.kinds = c.kinds \cup {outcome},
                                          !.fails = c.fails + 1])

\* One pass of the retry loop: sleep, count, request, and the decorator's
\* reaction to the outcome.
Attempt(outcome, d) ==
    /\ call.state = "running"
    /\ (mode = "run" /\ outcome # "ok") =>
           (site = "failures" /\ hist.failures < MaxFailures)
    /\ request_count' = request_count + 1
    /\ call' = MakeRequestPass(call, outcome, d)
    /\ hist' = [hist EXCEPT !.failures =
                                 IF outcome = "ok" THEN hist.failures
                                 ELSE hist.failures + 1]
    /\ UNCHANGED <<mode, site, request_delay, max_retries, pc, pair, page, total_pages,
                   total_count, items, results, all_results, all_data, file>>

\* the outcomes the environment produces: every kind when make_request is
\* exercised on its own; under a pagination loop, where only success or
\* failure matters, the site answers or returns an error status (during a
\* run of the scraper it fails only in a "failures" behaviour, MaxFailures
\* times at most)
OutcomesIn(m) == IF m = "req" THEN Outcomes ELSE {"ok", "http_error"}

HttpAttempt ==
    \E outcome \in OutcomesIn(mode), d \in DelayChoices(request_delay) :
        Attempt(outcome, d)

\* get_request_stats()['total_requests']
total_requests == request_count

-----------------------------------------------------------------------------
(* History variables *)

\* soup.find("div", "fs-lg lh-md") found nothing
NoAddr == <<PyNone>>

NoListing == [h1 |-> FALSE, addr |-> NoAddr, skills |-> "absent", phone |-> "absent"]

Hist0 ==
    [calls |-> 0,           \* save_to_csv / make_request calls made so far
     failures |-> 0,        \* HTTP attempts that failed so far
     file0 |-> NoFile,      \* the file before the first save_to_csv call
     before |-> NoFile,     \* the file before the last save_to_csv call
     submitted |-> <<>>,    \* every record submitted to save_to_csv, in order
     orders |-> {},         \* the field orders of the save_to_csv calls
     dictonly |-> TRUE,     \* every call was an append of dict records
     raised |-> FALSE,      \* the last save_to_csv call raised
     wmode |-> "none",      \* the mode of the last save_to_csv call
     batch |-> 0,           \* the number of records it was given
     returned |-> FALSE,    \* the last scrape_region_category call has returned
     at |-> "none",         \* which fetch of it raised: "search" or "listing"
     fetched |-> <<>>,      \* search pages fetched by this scrape_region_category
     links |-> 0,           \* listing links found on them
     parsed |-> FALSE,      \* page 1's result count was parsed
     pages1 |-> 0,          \* total_pages as computed on page 1
     count1 |-> 0,          \* total_count as parsed on page 1
     served |-> 0,          \* listing links the site has handed out
     visited |-> 0,         \* listings processed by this scrape_region_category
     listing |-> NoListing, \* the last listing page parsed
     segments |-> <<>>,     \* the segments its address text was joined from
     company |-> <<>>]      \* what _get_company_details returned for it

-----------------------------------------------------------------------------
(* SpecReq: make_request on a BaseScraper built with any request_delay and *)
(* max_retries                                                             *)

DelayOptions == {<<>>, <<1, 3>>, <<0, 0>>}

InitReq ==
    /\ mode = "req" /\ site = "none"
    /\ request_delay \in DelayOptions
    /\ max_retries \in 1..MaxM
    /\ request_count = 0
    /\ call = IdleCall
    /\ pc = "main" /\ pair = 1 /\ page = 0 /\ total_pages = 0 /\ total_count = -1
    /\ items = <<>> /\ results = <<>> /\ all_results = <<>> /\ all_data = <<>>
    /\ file = NoFile
    /\ hist = Hist0

\* a caller invokes make_request(url)
CallMakeRequest ==
    /\ mode = "req"
    /\ call.state # "running"
    /\ hist.calls < MaxReqCalls
    /\ call' = BeginCall(request_count)
    /\ hist' = [hist EXCEPT !.calls = hist.calls + 1]
    /\ UNCHANGED <<mode, site, request_delay, max_retries, request_count, pc, pair, page,
                   total_pages, total_count, items, results, all_results, all_data,
                   file>>

NextReq == CallMakeRequest \/ HttpAttempt

SpecReq == InitReq /\ [][NextReq]_vars

-----------------------------------------------------------------------------
(* SpecCsv: save_to_csv called on any file with any batch *)

FieldsAB == <<"a", "b">>

\* the records callers submit: dicts in two key orders, one with a None
\* value, and a plain list row
SampleRecs ==
    {DictRec(<< <<"a", "x">>, <<"b", "y">> >>),
     DictRec(<< <<"a", PyNone>>, <<"b", "y">> >>),
     DictRec(<< <<"b", "y">>, <<"a", "x">> >>),
     ListRec(<<"x", "y">>)}

Batches == UNION {[1..n -> SampleRecs] : n \in 0..MaxBatch}

\* the files a call may find: none, an empty one, one with the expected
\* header, ones with another header, one that starts with a blank line and
\* one whose first line does not decode
InitialFiles ==
    {NoFile,
     MkFile(<<>>),
     MkFile(<<FieldsAB, <<"x", "y">> >>),
     MkFile(<< <<"p", "q">>, <<"1", "2">> >>),
     MkFile(<< <<"p", "q">> >>),
     MkFile(<< <<>>, <<"1", "2">> >>),
     BadFile(<< <<"p", "q">>, <<"1", "2">> >>)}

InitCsv ==
    /\ mode = "csv" /\ site = "none"
    /\ request_delay = <<>> /\ max_retries = RetryTries /\ request_count = 0
    /\ call = IdleCall
    /\ pc = "main" /\ pair = 1 /\ page = 0 /\ total_pages = 0 /\ total_count = -1
    /\ items = <<>> /\ results = <<>> /\ all_results = <<>> /\ all_data = <<>>
    /\ file \in InitialFiles
    /\ hist = [Hist0 EXCEPT !.file0 = file, !.before = file]

\* the field order of a record: its keys (a list row has none of its own)
OrdersOf(data, fieldnames) ==
    {Keys(data[i].items) : i \in {j \in 1..Len(data) : data[j].kind = "dict"}}
        \cup (IF fieldnames # <<>> THEN {fieldnames} ELSE {})

\* what a save_to_csv call adds to the history
HistSave(h, f, data, fieldnames, wmode, r) ==
    [h EXCEPT !.calls = h.calls + 1,
              !.before = f,
              !.submitted = h.submitted \o data,
              !.orders = h.orders \cup OrdersOf(data, fieldnames),
              !.dictonly = h.dictonly /\ wmode = "a" /\ Len(data) > 0
                           /\ \A i \in 1..Len(data) : data[i].kind = "dict",
              !.raised = r.raised,
              !.wmode = wmode,
              !.batch = Len(data)]

SaveCall(data, fieldnames, wmode) ==
    /\ mode = "csv"
    /\ hist.calls < MaxCalls
    /\ LET r == save_to_csv(file, data, fieldnames, wmode)
       IN  /\ file' = r.file
           /\ hist' = HistSave(hist, file, data, fieldnames, wmode, r)
    /\ UNCHANGED <<mode, site, request_delay, max_retries, request_count, call, pc, pair,
                   page, total_pages, total_count, items, results, all_results,
                   all_data>>

\* the calls made: appends of any batch, with and without explicit
\* fieldnames, and mode 'w' writes of a batch
CallShapes == {<<<<>>, "a">>, <<FieldsAB, "a">>, <<<<>>, "w">>}

SaveToCsv ==
    \E data \in Batches, shape \in CallShapes :
        /\ Len(hist.submitted) + Len(data) <= MaxRows
        /\ SaveCall(data, shape[1], shape[2])

NextCsv == SaveToCsv

SpecCsv == InitCsv /\ [][NextCsv]_vars

-----------------------------------------------------------------------------
(* QualitEnrScraper and the __main__ driver *)

categories_urls == <<"installateurs-photovoltaique", "installateurs-pompe-a-chaleur">>
regions_code == <<"72", "75">>

\* for region in regions_code: for category in categories_urls
NumPairs == Len(regions_code) * Len(categories_urls)
PairRegion(p) == regions_code[((p - 1) \div Len(categories_urls)) + 1]
PairCategory(p) == categories_urls[((p - 1) % Len(categories_urls)) + 1]

\* QualitEnrConfig.REQUEST_DELAY = None and MAX_RETRIES = 3, handed to
\* BaseScraper.__init__
REQUEST_DELAY == <<>>
MAX_RETRIES == 3

PageSize == 20

RecordFields ==
    <<"link", "type", "name", "zip_code", "city", "street", "phone", "skills_name">>

\* The site.  A listing page: h1 (the heading is there), addr (the text
\* get_text("||", True) gives for the address block: its stripped strings
\* joined by "||"; NoAddr when the block is missing), skills ("absent":
\* the heading is missing, "present", or "nosibling": the heading is there
\* without the div read after it) and phone (the container is "absent" or
\* "present").
Href(i) == "/entreprise/" \o ToString(i)
AddrSep == <<Bar, Bar>>
SampleSegments ==
    << <<"12", Space, "Rue", Space, "des", Space, "Fleurs">>,
       <<"75000", Space, "Paris">> >>
SampleAddr == JoinTexts(SampleSegments, AddrSep)
AllListingPages ==
    [h1 : BOOLEAN, addr : {NoAddr, SampleAddr},
     skills : {"absent", "present", "nosibling"},
     phone : {"absent", "present"}]

CompletePage ==
    [h1 |-> TRUE, addr |-> SampleAddr, skills |-> "present", phone |-> "present"]

\* the listing pages served: the complete page and every page that differs
\* from it in one element
ListingPages ==
    {l \in AllListingPages :
        Cardinality({f \in DOMAIN l : l[f] # CompletePage[f]}) <= 1}

\* the links of a search page: soup.find_all("a", "results-item")
LinkLists == {[i \in 1..n |-> Href(i)] : n \in 0..MaxItems}

\* How the site behaves during a run.  "counts": page 1 reports any result
\* count, the pages carry no listing link and every request succeeds.
\* "listings": the count is a multiple of the page size, the pages carry any
\* links, the listing pages are any of ListingPages and every request
\* succeeds.  "failures": as "listings" with complete listing pages only and
\* up to MaxFailures failed HTTP attempts.
Sites == {"counts", "listings", "failures"}
CountsOf(s) ==
    IF s = "counts" THEN 0..MaxCount
    ELSE {k * PageSize : k \in 0..(MaxCount \div PageSize)}
LinksOf(s) == IF s = "counts" THEN {<<>>} ELSE LinkLists
PagesOf(s) == IF s = "listings" THEN ListingPages ELSE {CompletePage}

\* (mutant) the city is the last token alone
AddressPartsCityLastToken(addr) ==
    LET addr_sp == PySplit(addr, AddrSep)
        zip_city_sp == PySplit(addr_sp[Len(addr_sp)], <<Space>>)
    IN  [street |-> Str(addr_sp[1]),
         zip_code |-> Str(zip_city_sp[1]),
         city |-> IF Len(zip_city_sp) > 1 THEN Str(zip_city_sp[Len(zip_city_sp)])
                  ELSE ""]

\* lines 65-71: addr.split("||"), the first part as street, the last part
\* split at each space, its first token as zip_code and the other tokens
\* joined by " " as city
AddressParts(addr) ==
    LET addr_sp == PySplit(addr, AddrSep)
        street == addr_sp[1]
        zip_city == addr_sp[Len(addr_sp)]
        zip_city_sp == PySplit(zip_city, <<Space>>)
        zip_code == zip_city_sp[1]
        rest == Tail(zip_city_sp)
        city == Join([i \in 1..Len(rest) |-> Str(rest[i])], " ")
    IN  [street |-> Str(street), zip_code |-> Str(zip_code), city |-> city]

\* (mutant) a missing h1 gives an empty name instead of an exception
GetCompanyDetailsEmptyName(link, category, l) ==
    IF l.addr = NoAddr \/ l.skills = "nosibling"
    THEN <<>>
    ELSE << <<"link", link>>, <<"type", category>>,
            <<"name", IF l.h1 THEN "Nom" ELSE "">>,
            <<"zip_code", AddressParts(l.addr).zip_code>>,
            <<"city", AddressParts(l.addr).city>>,
            <<"street", AddressParts(l.addr).street>>,
            <<"phone", IF l.phone = "present" THEN "0102030405" ELSE "">>,
            <<"skills_name", IF l.skills = "present" THEN "Solaire" ELSE "">> >>

\* _get_company_details, after the fetch: the dict returned for the listing
\* page l, {} (<<>>) when the try block raises
GetCompanyDetails(link, category, l) ==
    IF ~l.h1 \/ l.addr = NoAddr \/ l.skills = "nosibling"
    THEN <<>>
    ELSE LET parts == AddressParts(l.addr)
         IN  << <<"link", link>>, <<"type", category>>, <<"name", "Nom">>,
                <<"zip_code", parts.zip_code>>, <<"city", parts.city>>,
                <<"street", parts.street>>,
                <<"phone", IF l.phone = "present" THEN "0102030405" ELSE "">>,
                <<"skills_name", IF l.skills = "present" THEN "Solaire" ELSE "">> >>

\* (mutant) an unparsable count is taken for two pages
TotalPagesTwoOnFailure(pg, parsable, count) ==
    IF pg = 1 THEN (IF parsable THEN (count \div PageSize) + 1 ELSE 2) ELSE 1

\* (mutant) the page count is the ceiling of count / 20
TotalPagesCeiling(pg, parsable, count) ==
    IF pg = 1 /\ parsable THEN (count + PageSize - 1) \div PageSize ELSE 1

\* lines 106-114: total_pages = 1, and on page 1, when the count parses,
\* total_pages = (total_count // 20) + 1
TotalPagesOf(pg, parsable, count) ==
    IF pg = 1 /\ parsable THEN (count \div PageSize) + 1 ELSE 1

\* the files a run may find at data/qualit-enr_output.csv: none, an empty
\* one, the output of an earlier run, a file with another header
RunInitialFiles ==
    {NoFile,
     MkFile(<<>>),
     MkFile(<<RecordFields,
              <<"/entreprise/z", "installateurs-photovoltaique", "Nom", "72000",
                "Le Mans", "1 Rue", "", "">> >>),
     MkFile(<< <<"p", "q">>, <<"1", "2">> >>)}

Init ==
    /\ mode = "run" /\ site \in Sites
    /\ request_delay = REQUEST_DELAY
    /\ max_retries = MAX_RETRIES
    /\ request_count = 0
    /\ call = IdleCall
    /\ pc = "main" /\ pair = 1 /\ page = 0 /\ total_pages = 0 /\ total_count = -1
    /\ items = <<>> /\ results = <<>> /\ all_results = <<>> /\ all_data = <<>>
    /\ file \in RunInitialFiles
    /\ hist = [Hist0 EXCEPT !.file0 = file, !.before = file]

\* the driver calls scrape_region_category(category, region), which runs up
\* to its first make_request
StartPair ==
    /\ mode = "run" /\ pc = "main" /\ pair <= NumPairs
    /\ all_results' = <<>>
    /\ page' = 1
    /\ total_pages' = 0 /\ total_count' = -1 /\ items' = <<>> /\ results' = <<>>
    /\ call' = BeginCall(request_count)
    /\ pc' = "search"
    /\ hist' = [hist EXCEPT !.returned = FALSE, !.at = "none",
                            !.fetched = <<>>, !.links = 0,
                            !.parsed = FALSE, !.pages1 = 0, !.count1 = 0,
                            !.visited = 0]
    /\ UNCHANGED <<mode, site, request_delay, max_retries, request_count, pair, all_data,
                   file>>

\* lines 126-136, with the results of the page and the page count in hand:
\* extend all_results, then return to the driver or go on to the next page.
\* The locals page, total_pages, total_count, items and results are set by
\* the two callers (Returning tells them the frame is gone).
Returning(tp) == page >= tp

FinishPage(res, tp, h) ==
    /\ all_results' = all_results \o res
    /\ IF page >= tp
       THEN /\ all_data' = all_data \o (all_results \o res)
            /\ pair' = pair + 1
            /\ pc' = "main"
            /\ call' = IdleCall
            /\ hist' = [h EXCEPT !.returned = TRUE]
       ELSE /\ call' = BeginCall(request_count)
            /\ pc' = "search"
            /\ hist' = h
            /\ UNCHANGED <<all_data, pair>>

\* make_request(url) has returned the search page: lines 104-118, and the
\* loop over its items up to the first listing fetch
SearchPageReturned(parsable, count, hrefs) ==
    /\ mode = "run" /\ pc = "search" /\ call.state = "response"
    /\ hist.served + Len(hrefs) <= MaxListings
    /\ LET tp == TotalPagesOf(page, parsable, count)
           h == [hist EXCEPT !.fetched = Append(hist.fetched, page),
                             !.links = hist.links + Len(hrefs),
                             !.served = hist.served + Len(hrefs),
                             !.parsed = IF page = 1 THEN parsable ELSE hist.parsed,
                             !.pages1 = IF page = 1 THEN tp ELSE hist.pages1,
                             !.count1 = IF page = 1 /\ parsable THEN count
                                        ELSE hist.count1]
       IN  IF Len(hrefs) = 0
           THEN /\ FinishPage(<<>>, tp, h)
                /\ IF Returning(tp)
                   THEN /\ page' = 0 /\ total_pages' = 0 /\ total_count' = -1
                        /\ items' = <<>> /\ results' = <<>>
                   ELSE /\ page' = page + 1
                        /\ total_pages' = tp
                        /\ total_count' = IF page = 1 /\ parsable THEN count
                                          ELSE total_count
                        /\ items' = <<>> /\ results' = <<>>
           ELSE /\ total_pages' = tp
                /\ total_count' = IF page = 1 /\ parsable THEN count ELSE total_count
                /\ items' = hrefs
                /\ results' = <<>>
                /\ call' = BeginCall(request_count)
                /\ pc' = "listing"
                /\ hist' = h
                /\ UNCHANGED <<all_results, all_data, pair, page>>
    /\ UNCHANGED <<mode, site, request_delay, max_retries, request_count, file>>

SearchPage ==
    \E parsable \in BOOLEAN, count \in CountsOf(site), hrefs \in LinksOf(site) :
        /\ (page # 1 \/ ~parsable) => count = 0
        /\ SearchPageReturned(parsable, count, hrefs)

\* make_request(link) has returned the listing page l: the rest of
\* _get_company_details, lines 122-124, and the loop up to the next fetch
ListingReturned(l) ==
    /\ mode = "run" /\ pc = "listing" /\ call.state = "response"
    /\ LET company_data == GetCompanyDetails(Head(items), PairCategory(pair), l)
           data == <<DictRec(company_data)>>
           saved == IF company_data # <<>>
                    THEN save_to_csv(file, data, <<>>, "a")
                    ELSE [file |-> file, raised |-> FALSE]
           res == IF company_data # <<>> THEN Append(results, company_data)
                  ELSE results
           h0 == [hist EXCEPT !.visited = hist.visited + 1,
                              !.listing = l,
                              !.company = company_data]
           h == IF company_data # <<>>
                THEN HistSave(h0, file, data, <<>>, "a", saved)
                ELSE h0
       IN  /\ file' = saved.file
           /\ IF saved.raised
              THEN /\ pc' = "crashed"
                   /\ call' = IdleCall
                   /\ hist' = h
                   /\ results' = res
                   /\ items' = Tail(items)
                   /\ UNCHANGED <<all_results, all_data, pair, page, total_pages,
                                  total_count>>
              ELSE IF Len(items) = 1
              THEN /\ FinishPage(res, total_pages, h)
                   /\ IF Returning(total_pages)
                      THEN /\ page' = 0 /\ total_pages' = 0 /\ total_count' = -1
                           /\ items' = <<>> /\ results' = <<>>
                      ELSE /\ page' = page + 1
                           /\ results' = res
                           /\ items' = Tail(items)
                           /\ UNCHANGED <<total_pages, total_count>>
              ELSE /\ call' = BeginCall(request_count)
                   /\ pc' = "listing"
                   /\ hist' = h
                   /\ results' = res
                   /\ items' = Tail(items)
                   /\ UNCHANGED <<all_results, all_data, pair, page, total_pages,
                                  total_count>>
    /\ UNCHANGED <<mode, site, request_delay, max_retries, request_count>>

ListingPage == \E l \in PagesOf(site) : ListingReturned(l)

\* make_request has raised: nothing between it and the top of the script
\* catches the exception
RequestFailed ==
    /\ mode = "run" /\ pc \in {"search", "listing"} /\ call.state = "raised"
    /\ pc' = "crashed"
    /\ hist' = [hist EXCEPT !.at = pc]
    /\ UNCHANGED <<mode, site, request_delay, max_retries, request_count, call, pair, page,
                   total_pages, total_count, items, results, all_results, all_data,
                   file>>

\* the driver's loops are over: get_request_stats and the final print
Finish ==
    /\ mode = "run" /\ pc = "main" /\ pair > NumPairs
    /\ pc' = "finished"
    /\ UNCHANGED <<mode, site, request_delay, max_retries, request_count, call, pair, page,
                   total_pages, total_count, items, results, all_results, all_data,
                   file, hist>>

Next ==
    \/ StartPair
    \/ HttpAttempt
    \/ SearchPage
    \/ ListingPage
    \/ RequestFailed
    \/ Finish

Spec == Init /\ [][Next]_vars

-----------------------------------------------------------------------------
(* BaseScraper.paginate(base_url, start_page, max_pages, stop_condition),   *)
(* the pagination loop the base class offers; scrape_region_category does   *)
(* not call it.  total_pages holds max_pages and all_results the results    *)
(* list.  site tells whose process_page runs: "base" is the one of          *)
(* BaseScraper, which QualitEnrScraper inherits and which raises            *)
(* NotImplementedError; "subclass" is an override returning the items of    *)
(* the page.                                                                *)

Implementations == {"base", "subclass"}

\* process_page(response) of an override: the items found on the page
PageResults == {<<>>, <<Href(1)>>}

InitPag ==
    /\ mode = "pag" /\ site \in Implementations
    /\ request_delay = REQUEST_DELAY
    /\ max_retries = MAX_RETRIES
    /\ request_count = 0
    /\ call = IdleCall
    /\ pc = "main" /\ pair = 1 /\ page = 0 /\ total_pages = 0 /\ total_count = -1
    /\ items = <<>> /\ results = <<>> /\ all_results = <<>> /\ all_data = <<>>
    /\ file = NoFile
    /\ hist = Hist0

\* lines 431-437: results = [], page = start_page, and the first test of
\* the loop condition
CallPaginate(start_page, max_pages) ==
    /\ mode = "pag" /\ pc = "main" /\ hist.calls = 0
    /\ page' = start_page
    /\ total_pages' = max_pages
    /\ all_results' = <<>>
    /\ IF start_page <= max_pages
       THEN /\ call' = BeginCall(request_count)
            /\ pc' = "paginate"
            /\ hist' = [hist EXCEPT !.calls = 1]
       ELSE /\ call' = IdleCall
            /\ pc' = "returned"
            /\ hist' = [hist EXCEPT !.calls = 1, !.returned = TRUE]
    /\ UNCHANGED <<mode, site, request_delay, max_retries, request_count, pair,
                   total_count, items, results, all_data, file>>

\* (mutant) the handler re-raises whatever the page
PaginateOnErrorAlwaysRaises(pg, max_pages) == "raise"

\* lines 456-460, the except clause: if page >= max_pages: break, else raise
PaginateOnError(pg, max_pages) == IF pg >= max_pages THEN "break" ELSE "raise"

\* an exception reached the except clause of the loop body
PaginateExcept ==
    /\ call' = IdleCall
    /\ IF PaginateOnError(page, total_pages) = "break"
       THEN pc' = "returned" /\ hist' = [hist EXCEPT !.returned = TRUE]
       ELSE pc' = "raised" /\ hist' = hist
    /\ UNCHANGED <<mode, site, request_delay, max_retries, request_count, pair, page,
                   total_pages, total_count, items, results, all_results, all_data,
                   file>>

\* lines 445-455 after make_request returned: process_page, extend, the
\* stop condition, page += 1 and the next test of the loop condition
PageProcessed(page_results, stop) ==
    /\ mode = "pag" /\ pc = "paginate" /\ call.state = "response"
    /\ IF site = "base"
       THEN PaginateExcept
       ELSE /\ all_results' = all_results \o page_results
            /\ page' = page + 1
            /\ IF ~stop /\ page + 1 <= total_pages
               THEN /\ call' = BeginCall(request_count)
                    /\ pc' = "paginate"
                    /\ hist' = hist
               ELSE /\ call' = IdleCall
                    /\ pc' = "returned"
                    /\ hist' = [hist EXCEPT !.returned = TRUE]
            /\ UNCHANGED <<mode, site, request_delay, max_retries, request_count, pair,
                           total_pages, total_count, items, results, all_data, file>>

\* make_request raised inside the try block
PageFailed ==
    /\ mode = "pag" /\ pc = "paginate" /\ call.state = "raised"
    /\ PaginateExcept

Paginate == \E start_page \in 1..MaxPages, max_pages \in 1..MaxPages :
                CallPaginate(start_page, max_pages)

ProcessPage == \E page_results \in PageResults, stop \in BOOLEAN :
                   PageProcessed(page_results, stop)

NextPag == Paginate \/ HttpAttempt \/ ProcessPage \/ PageFailed

\* the two pagination loops of the repository side by side
InitLoops == Init \/ InitPag
NextLoops == Next \/ NextPag
SpecLoops == InitLoops /\ [][NextLoops]_vars

-----------------------------------------------------------------------------
(* SpecAddr: _get_company_details parsing a listing page whose address     *)
(* block has any text                                                      *)

Words == {"75000", "Paris"}

\* a string of the block as get_text(..., strip=True) yields it: not empty,
\* no space at either end; spaces may follow one another inside
Segments ==
    {seg \in UNION {[1..n -> Words \cup {Space}] : n \in 1..MaxPieces} :
        seg[1] # Space /\ seg[Len(seg)] # Space}

\* the strings that come before the last one
Streets ==
    {<<"12">>, <<"12", Space, "Rue">>, <<"Bat", Space, Space, "B">>}

\* the strings of the block: none (an empty block), the sample, or up to
\* MaxSegs strings, the last of them any of Segments
SegmentLists ==
    {<<>>, SampleSegments}
        \cup {before \o <<last>> :
                 before \in UNION {[1..n -> Streets] : n \in 0..(MaxSegs - 1)},
                 last \in Segments}

InitAddr ==
    /\ mode = "addr" /\ site = "none"
    /\ request_delay = REQUEST_DELAY
    /\ max_retries = MAX_RETRIES
    /\ request_count = 0
    /\ call = IdleCall
    /\ pc = "main" /\ pair = 1 /\ page = 0 /\ total_pages = 0 /\ total_count = -1
    /\ items = <<>> /\ results = <<>> /\ all_results = <<>> /\ all_data = <<>>
    /\ file = NoFile
    /\ \E segs \in SegmentLists :
           hist = [Hist0 EXCEPT !.segments = segs,
                                !.listing = [CompletePage EXCEPT
                                                !.addr = JoinTexts(segs, AddrSep)]]

\* lines 63-91 on the page fetched
ParseListing ==
    /\ mode = "addr" /\ hist.visited = 0
    /\ hist' = [hist EXCEPT !.visited = 1,
                            !.company = GetCompanyDetails(Href(1), PairCategory(pair),
                                                          hist.listing)]
    /\ UNCHANGED <<mode, site, request_delay, max_retries, request_count, call, pc, pair,
                   page, total_pages, total_count, items, results, all_results,
                   all_data, file>>

NextAddr == ParseListing

SpecAddr == InitAddr /\ [][NextAddr]_vars

-----------------------------------------------------------------------------
(* Properties of the scraper run (Spec) *)

\* C1: when page 1 reports a page count T >= 1, scrape_region_category
\* fetches the search pages 1, 2, ..., T in increasing order, each once, and
\* returns only when the page number has reached T.
C1_FetchesEveryPage ==
    hist.parsed =>
        /\ \A i \in 1..Len(hist.fetched) : hist.fetched[i] = i
        /\ Len(hist.fetched) <= hist.pages1
        /\ hist.returned => Len(hist.fetched) = hist.pages1

\* C7: every HTTP attempt of the site scraper comes right after a
\* rate-limiting sleep of 1 to 3 seconds.
C7_EveryAttemptAfterSleep ==
    \A i \in 1..Len(call.slept) :
        call.slept[i] # NoSleep /\ call.slept[i] >= 1 /\ call.slept[i] <= 3

\* C8: for every result count N >= 0 parsed on page 1, the page count
\* computed is N // 20 + 1; 45 gives 3 and 40 gives 3.
C8_PageCount ==
    hist.parsed =>
        /\ hist.count1 >= 0
        /\ hist.pages1 = (hist.count1 \div 20) + 1
        /\ hist.count1 = 45 => hist.pages1 = 3
        /\ hist.count1 = 40 => hist.pages1 = 3
        /\ (pc \in {"search", "listing"} /\ page = 1) =>
               (total_count = hist.count1 /\ total_pages = hist.pages1)

C8_Witness ==
    hist.parsed /\ hist.count1 = 40 /\ hist.pages1 = 3 /\ page = 2

\* the records held in memory by the running scrape_region_category
Accumulated == IF pc = "listing" THEN all_results \o results ELSE all_results

\* C9: for a listing page fetched successfully, a missing h1 makes
\* _get_company_details return an empty result: no row is written, nothing is
\* accumulated, nothing is raised and the next listing of the page is
\* fetched; a missing skills heading alone still gives a record, whose
\* skills_name is the empty string.
C9_SkipOrEmptySkills ==
    [][hist'.visited = hist.visited + 1 =>
        LET l == hist'.listing
            c == hist'.company
        IN  /\ ~l.h1 =>
                  /\ c = <<>>
                  /\ file' = file
                  /\ Accumulated' = Accumulated
                  /\ pc' # "crashed"
                  /\ Len(items) > 1 =>
                         (pc' = "listing" /\ items' = Tail(items)
                          /\ call'.state = "running")
            /\ (l.h1 /\ l.addr # NoAddr /\ l.skills = "absent") =>
                  /\ c # <<>>
                  /\ Get(c, "skills_name", PyNone) = ""
                  /\ Accumulated' = Append(Accumulated, c)]_vars

C9_Witness ==
    /\ hist.visited = 2 /\ ~hist.listing.h1 /\ hist.company = <<>>
    /\ pc # "crashed"
    /\ Len(all_results) = 1
    /\ Get(all_results[1], "skills_name", PyNone) = ""

C10_Case == mode = "run" /\ Len(hist.fetched) >= 1 /\ ~hist.parsed

\* C10: when the result count of page 1 cannot be parsed,
\* scrape_region_category takes the pair to have a single page: it fetches no
\* further search page, processes the listings of page 1 and returns; the
\* only exception that can leave it is a failed fetch.
C10_UnparsableCountSinglePage ==
    C10_Case =>
        /\ hist.pages1 = 1
        /\ hist.fetched = <<1>>
        /\ pc = "listing" => (page = 1 /\ total_pages = 1)
        /\ pc # "search"
        /\ pc = "crashed" => call.state = "raised"
        /\ hist.returned => hist.visited = hist.links

C10_Witness ==
    C10_Case /\ hist.returned /\ hist.links >= 2 /\ hist.visited = hist.links

\* the records scrape_region_category holds in memory: all_results, and
\* inside the loop over a page's items the results of that page
InMemory ==
    IF pc = "listing" \/ (pc = "crashed" /\ hist.at = "listing")
    THEN all_results \o results
    ELSE all_results

\* the row of a record: its values in the order of the columns
RowOf(c) == [j \in 1..Len(RecordFields) |-> CsvCell(Get(c, RecordFields[j], PyNone))]

LastRows(n) == SubSeq(file.rows, Len(file.rows) - n + 1, Len(file.rows))

\* a fetch is about to be issued, or the call was left by a failed fetch,
\* or it has returned
C14_Moment ==
    mode = "run" /\ (call.state = "running" \/ pc = "crashed" \/ hist.returned)

\* C14: whenever scrape_region_category issues a fetch, the rows it has
\* appended to the output file are the records it holds in memory, in order;
\* so are they when a failed fetch aborts it and when it returns its list.
C14_RowsAreRecords ==
    C14_Moment =>
        /\ Len(file.rows) >= Len(InMemory)
        /\ LastRows(Len(InMemory)) = [i \in 1..Len(InMemory) |-> RowOf(InMemory[i])]

-----------------------------------------------------------------------------
(* Properties of make_request (SpecReq) *)

\* C2: a make_request call whose first two attempts fail and whose third
\* succeeds returns the response and leaves request_count (total_requests)
\* exactly 1 higher than it was before the call.
C2_CounterUpByOne ==
    (call.state = "response" /\ call.attempts = 3 /\ call.fails = 2)
        => total_requests = call.count0 + 1

\* C3: a make_request call in which every attempt fails, whatever the kind
\* of failure, makes exactly 3 HTTP attempts and then raises; it never
\* returns a response.
C3_AllFailRaisesAfterThree ==
    (call.state # "idle" /\ call.fails = call.attempts)
        => /\ call.state # "response"
           /\ call.attempts <= 3
           /\ (call.state = "raised") = (call.attempts = 3)

C3_Witness ==
    call.state = "raised" /\ call.attempts = 3 /\ call.kinds = {"timeout"}

\* C4: a make_request call on a scraper built with max_retries = M issues at
\* most M HTTP attempts.
C4_AttemptsAtMostMaxRetries ==
    call.attempts <= max_retries

\* the pause between failure i of the call and the attempt after it: the
\* decorator's sleep, and the rate-limiting sleep of the next pass if the
\* scraper has a request delay
PauseAfter(i) ==
    call.waits[i] + (IF i + 1 <= Len(call.slept) /\ call.slept[i + 1] # NoSleep
                     THEN call.slept[i + 1] ELSE 0)

\* C12: within one make_request call the decorator waits 1 second between
\* the first failure and the second attempt, 2 seconds between the second
\* failure and the third attempt, and does not wait after the last failed
\* attempt before the failure is raised; on a scraper without request delay
\* (the site scraper) these are the whole pauses between attempts.
C12_BackoffOneThenTwo ==
    call.state # "idle" =>
        /\ Len(call.waits) = IF call.state = "raised" THEN call.fails - 1
                              ELSE call.fails
        /\ Len(call.waits) >= 1 => call.waits[1] = 1
        /\ Len(call.waits) >= 2 => call.waits[2] = 2
        /\ Len(call.waits) <= 2
        /\ call.state = "raised" => (call.fails = 3 /\ call.waits = <<1, 2>>)
        /\ request_delay = <<>> =>
               \A i \in 1..Len(call.waits) : PauseAfter(i) = call.waits[i]

C12_Witness ==
    /\ call.state = "raised" /\ call.fails = 3 /\ call.waits = <<1, 2>>
    /\ request_delay = <<>>
    /\ PauseAfter(1) = 1 /\ PauseAfter(2) = 2

-----------------------------------------------------------------------------
(* Properties of the address parsing (SpecAddr) *)

\* where the first space of a text is, 0 if it has none
FirstSpace(text) ==
    IF \E i \in 1..Len(text) : text[i] = Space
    THEN CHOOSE i \in 1..Len(text) :
             text[i] = Space /\ \A j \in 1..(i - 1) : text[j] # Space
    ELSE 0

UpToFirstSpace(text) ==
    IF FirstSpace(text) = 0 THEN text ELSE SubSeq(text, 1, FirstSpace(text) - 1)

AfterFirstSpace(text) ==
    IF FirstSpace(text) = 0 THEN <<>>
    ELSE SubSeq(text, FirstSpace(text) + 1, Len(text))

C13_Case == mode = "addr" /\ hist.visited = 1 /\ Len(hist.segments) >= 1

\* C13: for every address text made of segments joined by "||",
\* _get_company_details gives the first segment as street, the first
\* space-delimited token of the last segment (what precedes its first space)
\* as zip_code, and the remaining tokens joined by single spaces (what
\* follows that space, as it stands) as city; "12 Rue des Fleurs||75000 Paris"
\* gives "12 Rue des Fleurs", "75000" and "Paris".
C13_StreetZipCity ==
    C13_Case =>
        LET segs == hist.segments
            last == segs[Len(segs)]
            c == hist.company
        IN  /\ c # <<>>
            /\ Get(c, "street", PyNone) = Str(segs[1])
            /\ Get(c, "zip_code", PyNone) = Str(UpToFirstSpace(last))
            /\ Get(c, "city", PyNone) = Str(AfterFirstSpace(last))
            /\ Str(hist.listing.addr) = "12 Rue des Fleurs||75000 Paris" =>
                   /\ Get(c, "street", PyNone) = "12 Rue des Fleurs"
                   /\ Get(c, "zip_code", PyNone) = "75000"
                   /\ Get(c, "city", PyNone) = "Paris"

C13_Witness ==
    /\ C13_Case
    /\ Str(hist.listing.addr) = "12 Rue des Fleurs||75000 Paris"
    /\ Get(hist.company, "street", PyNone) = "12 Rue des Fleurs"
    /\ Get(hist.company, "zip_code", PyNone) = "75000"
    /\ Get(hist.company, "city", PyNone) = "Paris"

-----------------------------------------------------------------------------
(* Properties of save_to_csv (SpecCsv) *)

\* the rows of the records recs under the field order F: each record's
\* values, in the order of F
AppendedRows(recs, F) ==
    [i \in 1..Len(recs) |-> [j \in 1..Len(F) |-> CsvCell(recs[i].items[j][2])]]

\* every call so far was an append of a non-empty batch of dict records, all
\* of one field order
StableAppends ==
    hist.calls >= 1 /\ hist.dictonly /\ Cardinality(hist.orders) = 1

FieldOrder == CHOOSE o \in hist.orders : TRUE

C5_Case ==
    StableAppends /\ (~hist.file0.exists \/ hist.file0 = MkFile(<<>>))

\* C5: starting from a missing or empty file, after any sequence of appends
\* of non-empty dict batches with one field order, the file is the header row
\* once, as its first row, followed by every submitted record once, in
\* submission order.
C5_HeaderOnceRowsInOrder ==
    C5_Case => /\ ~hist.raised
               /\ file.exists
               /\ file.rows = <<FieldOrder>> \o AppendedRows(hist.submitted, FieldOrder)

C5_Witness ==
    C5_Case /\ hist.calls >= 2 /\ Len(hist.submitted) >= 3
            /\ file.rows = <<FieldOrder>> \o AppendedRows(hist.submitted, FieldOrder)

C6_Case ==
    /\ StableAppends /\ hist.calls = 1
    /\ hist.file0.exists /\ ~hist.file0.bad /\ Len(hist.file0.rows) > 0
    /\ hist.file0.rows[1] # FieldOrder

\* C6: after one append of dict records to a non-empty file whose first row
\* differs from the field order, the file is: the new header; the stale
\* header, once, as a data row; the rows that were there, in order; one row
\* per new record with the record's values in the field order.
C6_StaleHeaderOnceThenValues ==
    C6_Case => file.rows = <<FieldOrder>> \o hist.file0.rows
                               \o AppendedRows(hist.submitted, FieldOrder)

-----------------------------------------------------------------------------
(* Properties of the pagination loops (SpecLoops) *)

\* a fetch of scrape_region_category has exhausted its retries
PairFetchRaised ==
    mode = "run" /\ pc \in {"search", "listing"} /\ call.state = "raised"

\* the page being fetched has reached the page count the loop holds
AtCeiling == total_pages >= 1 /\ page >= total_pages

\* C11 (as stated): a fetch of the (category, region) loop that exhausts its
\* retries propagates to the caller, except when the page being fetched has
\* reached the page count: then the loop returns quietly what it collected.
C11_QuietReturnAtCeiling ==
    [][PairFetchRaised =>
          IF AtCeiling
          THEN pc' = "main" /\ hist'.returned
               /\ all_data' = all_data \o Accumulated
          ELSE pc' = "crashed"]_vars

\* C11: a fetch of scrape_region_category that exhausts its retries always
\* propagates, out of the call and out of the driver, also when the page
\* being fetched has reached the page count, and nothing collected by the
\* call is returned; the quiet exit exists in BaseScraper.paginate only,
\* which returns its results when page >= max_pages and re-raises otherwise.
C11_PairLoopAlwaysPropagates ==
    [][/\ PairFetchRaised =>
             /\ pc' = "crashed"
             /\ ~hist'.returned
             /\ all_data' = all_data
       /\ (mode = "pag" /\ pc = "paginate" /\ call.state = "raised") =>
             /\ all_results' = all_results
             /\ IF page >= total_pages
                THEN pc' = "returned" /\ hist'.returned
                ELSE pc' = "raised" /\ ~hist'.returned]_vars

C11_Witness ==
    /\ mode = "run" /\ pc = "crashed" /\ call.state = "raised"
    /\ AtCeiling
    /\ Len(all_results \o results) >= 1
    /\ ~hist.returned

-----------------------------------------------------------------------------
(* Properties of save_to_csv in append mode (SpecCsv) *)

\* every element of a occurs in b, in the order of a
RECURSIVE IsSubseq(_, _)
IsSubseq(a, b) ==
    IF a = <<>> THEN TRUE
    ELSE IF b = <<>> THEN FALSE
    ELSE IF Head(a) = Head(b) THEN IsSubseq(Tail(a), Tail(b))
    ELSE IsSubseq(a, Tail(b))

\* the records of the last call
LastBatch ==
    SubSeq(hist.submitted, Len(hist.submitted) - hist.batch + 1, Len(hist.submitted))

C15_Case == mode = "csv" /\ hist.calls >= 1 /\ hist.wmode = "a"

\* C15: a save_to_csv call in append mode removes or alters no row that was
\* in the file before it; when the existing file's header cannot be read, a
\* header row and the new records are appended after the existing content;
\* when the input is empty or invalid the file is left exactly as it was.
C15_AppendOnly ==
    C15_Case =>
        /\ IsSubseq(hist.before.rows, file.rows)
        /\ (hist.before.bad /\ hist.batch > 0 /\ ~hist.raised) =>
               \E header \in hist.orders :
                   file.rows = hist.before.rows \o <<header>>
                                   \o WriterRows(
                                          [i \in 1..hist.batch |->
                                              IF LastBatch[i].kind = "dict"
                                              THEN ListRec(DictToList(LastBatch[i], header))
                                              ELSE LastBatch[i]])
        /\ (hist.batch = 0 \/ hist.raised) => file = hist.before

====
